---- MODULE Spec2Model ----
(***************************************************************************)
(* Gomoku / tic-tac-toe engine of PractiseAssignment4/07_minimax_exercise: *)
(* the board and its terminal classifier (GomokuBoard.winner), the move    *)
(* generator (next_boards), the two search strategies (minimax and         *)
(* alpha_beta) and the turn controller (GameLogic).                        *)
(*                                                                         *)
(* A board is a sequence of n rows, each a sequence of n marks:            *)
(* 0 empty, 1 X (the human, Minimizer), 2 O (the engine, Maximizer).       *)
(* Python's 0-based indices are 1-based here.                              *)
(***************************************************************************)
EXTENDS Integers, Sequences, FiniteSets, TLC

VARIABLES
  BOARD,            \* the live board: BOARD.board, shared with GAME_LOGIC.board
  current_player,   \* GameLogic.current_player
  move_ai,          \* GameLogic.move_ai: the opponent strategy in use
  last,             \* the last completed call: its name, input, result (history)
  stack             \* the frames of value/minimize/maximize of a running search

vars == <<BOARD, current_player, move_ai, last, stack>>

BOARD_SIZE == 3
NEEDED_TO_WIN == 3

\* Python's None, where the code returns an int or None
None == -1

Marks == {0, 1, 2}

\* ------------------------------------------------------------------------
\* GomokuBoard

\* np.zeros((n, n), dtype=int)
zeros(n) == [i \in 1..n |-> [j \in 1..n |-> 0]]

\* board.T
transpose(b) ==
  LET n == Len(b) IN [j \in 1..n |-> [i \in 1..n |-> b[i][j]]]

\* np.flipud(board)
flipud(b) ==
  LET n == Len(b) IN [i \in 1..n |-> b[n + 1 - i]]

\* board.diagonal(k): offset k > 0 lies above the main diagonal
diagonal(b, k) ==
  LET n == Len(b) IN
  IF k >= 0 THEN [j \in 1..(n - k) |-> b[j][j + k]]
            ELSE [j \in 1..(n + k) |-> b[j - k][j]]

\* diagonals taking the main diagonal only, as if boards were never larger than
\* NEEDED_TO_WIN
diagonals_main_only(b) == <<diagonal(b, 0)>>

\* (board.diagonal(i) for i in range(K - n, n - K + 1))
diagonals(b) ==
  LET n == Len(b) IN
  [t \in 1..(2 * (n - NEEDED_TO_WIN) + 1) |->
     diagonal(b, NEEDED_TO_WIN - n + t - 1)]

\* itertools.groupby(row) from position i on, as the sequence of
\* (key, len(list(group))): one entry per maximal run of equal elements
RECURSIVE groupby(_, _)
groupby(row, i) ==
  IF i > Len(row) THEN <<>>
  ELSE LET e == CHOOSE j \in i..Len(row) :
                  /\ \A m \in i..j : row[m] = row[i]
                  /\ (j = Len(row) \/ row[j + 1] # row[i])
       IN <<[key |-> row[i], length |-> e - i + 1]>> \o groupby(row, e + 1)

\* for key, group in groupby(row) if key != 0: if length >= NEEDED_TO_WIN:
\* the key of the first such group of the row, None when there is none
long_run(row) ==
  LET groups == groupby(row, 1)
      long == {g \in 1..Len(groups) :
                 groups[g].key # 0 /\ groups[g].length >= NEEDED_TO_WIN}
  IN IF long = {} THEN None
     ELSE groups[CHOOSE g \in long : \A h \in long : g <= h].key

\* for player, length in (... for row in lines for key, group in groupby(row)
\*                        if key != 0): if length >= NEEDED_TO_WIN: return player
\* the first such run in generator order (lines in order, groups in order)
first_long_run(lines) ==
  LET hit == {l \in 1..Len(lines) : long_run(lines[l]) # None}
  IN IF hit = {} THEN None
     ELSE long_run(lines[CHOOSE l \in hit : \A h \in hit : l <= h])

winner(b) ==
  LET in_rows == first_long_run(b) IN
  IF in_rows # None THEN in_rows ELSE
  LET in_cols == first_long_run(transpose(b)) IN
  IF in_cols # None THEN in_cols ELSE
  LET in_diag == first_long_run(diagonals(b)) IN
  IF in_diag # None THEN in_diag ELSE
  LET in_anti == first_long_run(diagonals(flipud(b))) IN
  IF in_anti # None THEN in_anti ELSE
  IF \A i \in 1..Len(b) : \A j \in 1..Len(b) : b[i][j] # 0
  THEN 0
  ELSE None

\* winner() of every BOARD_SIZE x BOARD_SIZE board, tabulated once; a row r of
\* the board is the base-3 numeral row_code(r)
row_code(r) == 1 + r[1] + 3 * r[2] + 9 * r[3]
row_of(k) == <<(k - 1) % 3, ((k - 1) \div 3) % 3, ((k - 1) \div 9) % 3>>
winner_table ==
  [k \in 1..19683 |->
     winner(<<row_of(((k - 1) % 27) + 1), row_of((((k - 1) \div 27) % 27) + 1),
              row_of(((k - 1) \div 729) + 1)>>)]

\* board.winner() of a BOARD_SIZE x BOARD_SIZE board, read from the table
board_winner(b) ==
  winner_table[row_code(b[1]) + 27 * (row_code(b[2]) - 1)
                              + 729 * (row_code(b[3]) - 1)]

\* the cells of a 3 x 3 board, row-major
cells3 == <<<<1, 1>>, <<1, 2>>, <<1, 3>>, <<2, 1>>, <<2, 2>>, <<2, 3>>,
            <<3, 1>>, <<3, 2>>, <<3, 3>>>>

\* np.argwhere(board == 0): the empty cells, row-major
possible_steps(b) ==
  LET n == Len(b)
      cells == IF n = 3 THEN cells3
               ELSE [t \in 1..(n * n) |-> <<((t - 1) \div n) + 1, ((t - 1) % n) + 1>>]
  IN SelectSeq(cells, LAMBDA c : b[c[1]][c[2]] = 0)

\* next_boards comparing instead of assigning (next_board[...] == player), so
\* that the copies stay as the board is
next_boards_unmarked(b, player) ==
  LET steps == possible_steps(b) IN [t \in 1..Len(steps) |-> b]

\* next_boards placing the opponent's mark instead of player's
next_boards_opponent_mark(b, player) ==
  LET steps == possible_steps(b) IN
  [t \in 1..Len(steps) |-> [b EXCEPT ![steps[t][1]][steps[t][2]] = 3 - player]]

\* next_board = self.copy(); next_board[row_ind, col_ind] = player
next_boards(b, player) ==
  LET steps == possible_steps(b) IN
  [t \in 1..Len(steps) |-> [b EXCEPT ![steps[t][1]][steps[t][2]] = player]]

switch_player(player) == 3 - player

\* ------------------------------------------------------------------------
\* minimax(board) and alpha_beta(board)

\* MiniMaxReturnType: (value, solution); solution is a list of boards, or
\* None (is_none)
MiniMaxReturn(v, s, isn) == [value |-> v, solution |-> s, is_none |-> isn]

\* game_over scoring for X, as winner()'s docstring puts it: 1 -> 1, 2 -> -1
game_over_for_x(w) ==
  IF w = 0 THEN MiniMaxReturn(0, <<>>, TRUE)
  ELSE IF w = 1 THEN MiniMaxReturn(1, <<>>, TRUE)
  ELSE MiniMaxReturn(-1, <<>>, TRUE)

\* if board.winner() == 0: return 0, None
\* if board.winner() == 1: return -1, None
\* if board.winner() == 2: return 1, None
game_over(w) ==
  IF w = 0 THEN MiniMaxReturn(0, <<>>, TRUE)
  ELSE IF w = 1 THEN MiniMaxReturn(-1, <<>>, TRUE)
  ELSE MiniMaxReturn(1, <<>>, TRUE)

min(a, b) == IF a <= b THEN a ELSE b
max(a, b) == IF a >= b THEN a ELSE b

RECURSIVE minimax_value(_, _)
RECURSIVE minimax_minimize(_, _)
RECURSIVE minimax_maximize(_, _)
RECURSIVE minimax_minimize_loop(_, _, _, _, _)
RECURSIVE minimax_maximize_loop(_, _, _, _, _)

minimax_value(b, player) ==
  IF player = 2 THEN minimax_maximize(b, player)
                ELSE minimax_minimize(b, player)

\* the body of minimize's for loop at the i-th successor, whose value is valuee:
\* if valuee < min_value: min_value = valuee; solution.append(next_board)
minimax_minimize_body(boards, i, player, min_value, solution, valuee) ==
  IF valuee < min_value
  THEN minimax_minimize_loop(boards, i + 1, player, valuee,
                             Append(solution, boards[i]))
  ELSE minimax_minimize_loop(boards, i + 1, player, min_value, solution)

\* minimize's for loop from the i-th successor on; return min_value, solution
minimax_minimize_loop(boards, i, player, min_value, solution) ==
  IF i > Len(boards) THEN MiniMaxReturn(min_value, solution, FALSE)
  ELSE minimax_minimize_body(boards, i, player, min_value, solution,
         minimax_value(boards[i], switch_player(player)).value)

minimax_minimize(b, player) ==
  IF board_winner(b) # None THEN game_over(board_winner(b))
  ELSE minimax_minimize_loop(next_boards(b, player), 1, player, 1, <<>>)

\* the body of maximize's for loop at the i-th successor, whose value is valuee:
\* if valuee > max_value: max_value = valuee; solution.append(next_board)
minimax_maximize_body(boards, i, player, max_value, solution, valuee) ==
  IF valuee > max_value
  THEN minimax_maximize_loop(boards, i + 1, player, valuee,
                             Append(solution, boards[i]))
  ELSE minimax_maximize_loop(boards, i + 1, player, max_value, solution)

\* maximize's for loop from the i-th successor on; return max_value, solution
minimax_maximize_loop(boards, i, player, max_value, solution) ==
  IF i > Len(boards) THEN MiniMaxReturn(max_value, solution, FALSE)
  ELSE minimax_maximize_body(boards, i, player, max_value, solution,
         minimax_value(boards[i], switch_player(player)).value)

minimax_maximize(b, player) ==
  IF board_winner(b) # None THEN game_over(board_winner(b))
  ELSE minimax_maximize_loop(next_boards(b, player), 1, player, -1, <<>>)

\* if solution is not None: board.board = solution[0].board
\* The outcome of the call on live board b with r = value(board, 2): the live
\* board afterwards, the root value, and whether solution[0] raised IndexError
\* (solution == [], which is not None)
apply_solution(b, r) ==
  IF r.is_none THEN [board |-> b, value |-> r.value, raised |-> FALSE]
  ELSE IF Len(r.solution) = 0
       THEN [board |-> b, value |-> r.value, raised |-> TRUE]
       ELSE [board |-> r.solution[1], value |-> r.value, raised |-> FALSE]

\* _, solution = value(board, 2)
minimax(b) == apply_solution(b, minimax_value(b, 2))

RECURSIVE alpha_beta_value(_, _, _, _)
RECURSIVE alpha_beta_minimize(_, _, _, _)
RECURSIVE alpha_beta_maximize(_, _, _, _)
RECURSIVE alpha_beta_minimize_loop(_, _, _, _, _, _, _)
RECURSIVE alpha_beta_maximize_loop(_, _, _, _, _, _, _)

alpha_beta_value(b, player, alpha, beta) ==
  IF player = 2 THEN alpha_beta_maximize(b, player, alpha, beta)
                ELSE alpha_beta_minimize(b, player, alpha, beta)

\* minimize's cut-off with the comparison turned round: if alpha <= beta: break
alpha_beta_minimize_break_swapped(boards, i, player, alpha, beta, min_value, solution) ==
  IF alpha <= beta
  THEN MiniMaxReturn(min_value, solution, FALSE)
  ELSE alpha_beta_minimize_loop(boards, i + 1, player, alpha, beta,
                                min_value, solution)

\* the end of minimize's loop body, beta already lowered:
\* if beta <= alpha: break
alpha_beta_minimize_break(boards, i, player, alpha, beta, min_value, solution) ==
  IF beta <= alpha
  THEN MiniMaxReturn(min_value, solution, FALSE)
  ELSE alpha_beta_minimize_loop(boards, i + 1, player, alpha, beta,
                                min_value, solution)

\* the body of minimize's for loop at the i-th successor, whose value is valuee:
\* if valuee < min_value: min_value = valuee; solution.append(next_board)
\* beta = min(beta, min_value)
alpha_beta_minimize_body(boards, i, player, alpha, beta, min_value, solution, valuee) ==
  IF valuee < min_value
  THEN alpha_beta_minimize_break(boards, i, player, alpha, min(beta, valuee),
                                 valuee, Append(solution, boards[i]))
  ELSE alpha_beta_minimize_break(boards, i, player, alpha, min(beta, min_value),
                                 min_value, solution)

alpha_beta_minimize_loop(boards, i, player, alpha, beta, min_value, solution) ==
  IF i > Len(boards) THEN MiniMaxReturn(min_value, solution, FALSE)
  ELSE alpha_beta_minimize_body(boards, i, player, alpha, beta, min_value,
         solution,
         alpha_beta_value(boards[i], switch_player(player), alpha, beta).value)

alpha_beta_minimize(b, player, alpha, beta) ==
  IF board_winner(b) # None THEN game_over(board_winner(b))
  ELSE alpha_beta_minimize_loop(next_boards(b, player), 1, player,
                                alpha, beta, 1, <<>>)

\* the end of maximize's loop body, alpha already raised:
\* if beta <= alpha: break
alpha_beta_maximize_break(boards, i, player, alpha, beta, max_value, solution) ==
  IF beta <= alpha
  THEN MiniMaxReturn(max_value, solution, FALSE)
  ELSE alpha_beta_maximize_loop(boards, i + 1, player, alpha, beta,
                                max_value, solution)

\* the body of maximize's for loop at the i-th successor, whose value is valuee:
\* if valuee > max_value: max_value = valuee; solution.append(next_board)
\* alpha = max(alpha, max_value)
alpha_beta_maximize_body(boards, i, player, alpha, beta, max_value, solution, valuee) ==
  IF valuee > max_value
  THEN alpha_beta_maximize_break(boards, i, player, max(alpha, valuee), beta,
                                 valuee, Append(solution, boards[i]))
  ELSE alpha_beta_maximize_break(boards, i, player, max(alpha, max_value), beta,
                                 max_value, solution)

alpha_beta_maximize_loop(boards, i, player, alpha, beta, max_value, solution) ==
  IF i > Len(boards) THEN MiniMaxReturn(max_value, solution, FALSE)
  ELSE alpha_beta_maximize_body(boards, i, player, alpha, beta, max_value,
         solution,
         alpha_beta_value(boards[i], switch_player(player), alpha, beta).value)

alpha_beta_maximize(b, player, alpha, beta) ==
  IF board_winner(b) # None THEN game_over(board_winner(b))
  ELSE alpha_beta_maximize_loop(next_boards(b, player), 1, player,
                                alpha, beta, -1, <<>>)

\* _, solution = value(board, 2, -1, 1)
alpha_beta(b) == apply_solution(b, alpha_beta_value(b, 2, -1, 1))

\* ------------------------------------------------------------------------
\* Reference notions the properties are stated with

\* mark m fills NEEDED_TO_WIN consecutive cells of b from (i, j) in
\* direction (di, dj)
RunAt(b, m, i, j, di, dj) ==
  \A t \in 0..(NEEDED_TO_WIN - 1) :
    /\ i + t * di \in 1..Len(b)
    /\ j + t * dj \in 1..Len(b)
    /\ b[i + t * di][j + t * dj] = m

\* some row, column, diagonal or anti-diagonal of b holds a run of m
HasRun(b, m) ==
  \E i \in 1..Len(b), j \in 1..Len(b) :
    \/ RunAt(b, m, i, j, 0, 1)
    \/ RunAt(b, m, i, j, 1, 0)
    \/ RunAt(b, m, i, j, 1, 1)
    \/ RunAt(b, m, i, j, 1, -1)

IsFull(b) == \A i \in 1..Len(b), j \in 1..Len(b) : b[i][j] # 0

\* the number of cells of b holding mark m
count(b, m) ==
  Cardinality({c \in (1..Len(b)) \X (1..Len(b)) : b[c[1]][c[2]] = m})

\* the boards one mark m away from b
Successors(b, m) ==
  {[b EXCEPT ![c[1]][c[2]] = m] :
     c \in {d \in (1..Len(b)) \X (1..Len(b)) : b[d[1]][d[2]] = 0}}

SetMax(S) == CHOOSE x \in S : \A y \in S : y <= x
SetMin(S) == CHOOSE x \in S : \A y \in S : x <= y

\* the game-theoretic value of b for O with player to move: +1 O wins, 0 draw,
\* -1 X wins, under optimal play of both sides to the end of the game
RECURSIVE GameValue(_, _)
GameValue(b, player) ==
  IF HasRun(b, 1) THEN -1
  ELSE IF HasRun(b, 2) THEN 1
  ELSE IF IsFull(b) THEN 0
  ELSE IF player = 2
       THEN SetMax({GameValue(s, 1) : s \in Successors(b, 2)})
       ELSE SetMin({GameValue(s, 2) : s \in Successors(b, 1)})

\* ------------------------------------------------------------------------
\* The search functions called on a position with O to move

\* at most 2 * MaxRounds cells are still empty in a position given to the search
MaxRounds == 3

\* X moves first and the engine answers each X mark: O is to move when X has
\* placed one more mark than O, and O has not won before
SearchBoards ==
  {b \in [1..BOARD_SIZE -> [1..BOARD_SIZE -> Marks]] :
     /\ count(b, 1) = count(b, 2) + 1
     /\ count(b, 0) <= 2 * MaxRounds
     /\ ~HasRun(b, 2)}

NoOutcome == [board |-> <<>>, value |-> 0, raised |-> FALSE]

\* the record of the last call: the operation, the board it was given, its
\* arguments, what it returned, whether an exception left it, and for play the
\* number of calls of move_ai, the board right after the human mark and the
\* values current_player took (at entry, then after each mark placed)
NoCall == [op |-> "init", before |-> <<>>, row |-> 0, col |-> 0, ret |-> None,
           value |-> 0, raised |-> FALSE, ai_calls |-> 0, mid |-> <<>>,
           turns |-> <<>>, first |-> NoOutcome]

SearchInit ==
  /\ BOARD \in SearchBoards
  /\ current_player = 2
  /\ move_ai = "none"
  /\ last = NoCall
  /\ stack = <<>>

\* a search function called on a board holding position input; out is its
\* outcome, first the outcome of the search run before it on that position
SearchCall(name, input, out, first) ==
  /\ BOARD' = out.board
  /\ last' = [NoCall EXCEPT !.op = name, !.before = input,
                            !.value = out.value, !.raised = out.raised,
                            !.first = first]
  /\ UNCHANGED <<current_player, move_ai, stack>>

\* minimax(BOARD)
Minimax ==
  /\ last.op = "init"
  /\ SearchCall("minimax", BOARD, minimax(BOARD), NoOutcome)

\* alpha_beta(board), board a fresh board holding the position minimax was
\* given
AlphaBeta ==
  /\ last.op = "minimax"
  /\ SearchCall("alpha_beta", last.before, alpha_beta(last.before),
                [board |-> BOARD, value |-> last.value, raised |-> last.raised])

SearchNext == Minimax \/ AlphaBeta

SpecSearch == SearchInit /\ [][SearchNext]_vars

SearchOps == {"minimax", "alpha_beta"}

\* the root score a search returns is the value of the position
RootScoreIsGameValue ==
  last.op \in SearchOps => last.value = GameValue(last.before, 2)

\* the last call was a search on a position that was not terminal
SearchedOngoing == last.op \in SearchOps /\ board_winner(last.before) = None

\* ------------------------------------------------------------------------
\* Properties of the search functions (SpecSearch)

\* the search installed one of O's moves
Moved == last.op \in SearchOps /\ BOARD # last.before

\* C1: when minimax installs a successor of a non-terminal position, the value
\* of that successor is the largest value any O-successor of the position has.
C1_InstalledIsMaximal ==
  (last.op = "minimax" /\ board_winner(last.before) = None /\ Moved) =>
    GameValue(BOARD, 1) =
      SetMax({GameValue(s, 1) : s \in Successors(last.before, 2)})

\* C2: alpha_beta gives the same root score and leaves the same live board as
\* minimax on the same position (and fails exactly when minimax fails).
C2_AlphaBetaAsMinimax ==
  last.op = "alpha_beta" =>
    [board |-> BOARD, value |-> last.value, raised |-> last.raised] = last.first

\* both searches ran on a position with at least four empty cells and moved
C2_Witness ==
  /\ last.op = "alpha_beta"
  /\ Moved
  /\ last.first.board = BOARD
  /\ count(last.before, 0) >= 4

\* every move of O loses against best play
ForcedLoss(b) == \A s \in Successors(b, 2) : GameValue(s, 1) = -1

\* C3: on a non-terminal position where every O move is a forced loss the
\* search completes normally and leaves the board as it was.
C3_ForcedLossCompletes ==
  (SearchedOngoing /\ ForcedLoss(last.before)) =>
    (~last.raised /\ BOARD = last.before)

\* C7: after a search the board is the input or one legal O-successor of it,
\* and a terminal input is left unchanged.
C7_InputOrOneOMove ==
  last.op \in SearchOps =>
    /\ BOARD = last.before \/ BOARD \in Successors(last.before, 2)
    /\ board_winner(last.before) # None => BOARD = last.before

\* a search moved on an ongoing position
C7_Witness == SearchedOngoing /\ Moved /\ BOARD \in Successors(last.before, 2)

\* a search was called on a terminal position
C7_WitnessTerminal ==
  last.op \in SearchOps /\ board_winner(last.before) # None /\ BOARD = last.before

\* the game goes on at b and X completes a run with its next mark
HumanWinsNext(b) ==
  /\ ~HasRun(b, 1) /\ ~HasRun(b, 2) /\ ~IsFull(b)
  /\ \E t \in Successors(b, 1) : HasRun(t, 1)

Defensible(b) == ~HumanWinsNext(b)

\* the position searched was ongoing and O had a defensible reply to it
DefensibleExists ==
  SearchedOngoing /\ \E s \in Successors(last.before, 2) : Defensible(s)

\* C9: when some O reply to a non-terminal position is defensible, the search
\* selects a reply and the reply it selects is defensible.
C9_RepliesDefensibly == DefensibleExists => (Moved /\ Defensible(BOARD))

\* the replies the search does select are defensible
MovesAreDefensible == (DefensibleExists /\ Moved) => Defensible(BOARD)

\* ------------------------------------------------------------------------
\* The board classifier on boards of several sizes (SpecWinner)

\* GomokuBoard(n) is built with n = BOARD_SIZE or one more, which gives the
\* board off-centre diagonals as long as NEEDED_TO_WIN
BoardSizes == {BOARD_SIZE, BOARD_SIZE + 1}

\* at most MaxMarks cells of a board larger than BOARD_SIZE are marked; a board
\* of BOARD_SIZE is filled up
MaxMarks == 3

MarkLimit(b) == IF Len(b) = BOARD_SIZE THEN Len(b) * Len(b) ELSE MaxMarks

WinnerInit ==
  /\ \E n \in BoardSizes : BOARD = zeros(n)
  /\ current_player = 1
  /\ move_ai = "none"
  /\ last = NoCall
  /\ stack = <<>>

\* board[row, col] = item on an empty cell
SetItem(row, col, item) ==
  /\ BOARD[row][col] = 0
  /\ count(BOARD, 0) > Len(BOARD) * Len(BOARD) - MarkLimit(BOARD)
  /\ BOARD' = [BOARD EXCEPT ![row][col] = item]
  /\ last' = [NoCall EXCEPT !.op = "setitem"]
  /\ UNCHANGED <<current_player, move_ai, stack>>

\* board.winner()
Winner ==
  /\ last.op # "winner"
  /\ last' = [NoCall EXCEPT !.op = "winner", !.before = BOARD,
                            !.ret = winner(BOARD)]
  /\ UNCHANGED <<BOARD, current_player, move_ai, stack>>

WinnerNext ==
  \/ \E row \in 1..Len(BOARD), col \in 1..Len(BOARD), item \in {1, 2} :
       SetItem(row, col, item)
  \/ Winner

SpecWinner == WinnerInit /\ [][WinnerNext]_vars

\* C4: winner() returns a mark exactly when some row, column, diagonal or
\* anti-diagonal holds a run of NEEDED_TO_WIN equal marks, and then a mark that
\* has such a run; 0 exactly when there is no run and no empty cell; None
\* otherwise. The classification used by the search on 3 x 3 boards is the same.
C4_WinnerAgreesWithReference ==
  last.op = "winner" =>
    /\ last.ret \in {1, 2} <=> (HasRun(last.before, 1) \/ HasRun(last.before, 2))
    /\ last.ret \in {1, 2} => HasRun(last.before, last.ret)
    /\ last.ret = 0 <=> /\ ~HasRun(last.before, 1)
                        /\ ~HasRun(last.before, 2)
                        /\ IsFull(last.before)
    /\ last.ret = None <=> /\ ~HasRun(last.before, 1)
                           /\ ~HasRun(last.before, 2)
                           /\ ~IsFull(last.before)
    /\ Len(last.before) = 3 => board_winner(last.before) = last.ret

\* winner() reported a run that lies on an off-centre diagonal or anti-diagonal
\* only
C4_Witness ==
  /\ last.op = "winner"
  /\ Len(last.before) = BOARD_SIZE + 1
  /\ count(last.before, 0) = Len(last.before) * Len(last.before) - NEEDED_TO_WIN
  /\ \/ RunAt(last.before, last.ret, 1, 2, 1, 1)
     \/ RunAt(last.before, last.ret, 2, 1, 1, 1)
     \/ RunAt(last.before, last.ret, 1, 3, 1, -1)
     \/ RunAt(last.before, last.ret, 2, 4, 1, -1)

\* winner() reported a win on a board with no empty cell
C4_WitnessFullWin ==
  last.op = "winner" /\ IsFull(last.before) /\ last.ret \in {1, 2}

\* ------------------------------------------------------------------------
\* GameLogic driven by the event loop (Spec)

Algorithms == {"random_move", "minimax", "alpha_beta"}

\* random_move: board[row, col] = 2 on one of the empty cells, any of them
random_move(b) ==
  {[board |-> [b EXCEPT ![c[1]][c[2]] = 2], value |-> 0, raised |-> FALSE] :
     c \in {d \in (1..Len(b)) \X (1..Len(b)) : b[d[1]][d[2]] = 0}}

\* self.move_ai(self.board): the outcomes the configured strategy can have
move_ai_outcomes(name, b) ==
  IF name = "random_move" THEN random_move(b)
  ELSE IF name = "minimax" THEN {minimax(b)}
  ELSE {alpha_beta(b)}

\* play that never finds the cell taken
play_rejects_never(b, row, col) == FALSE

\* if self.board[row_ind][col_ind] != 0: return None
play_rejects(b, row, col) == b[row][col] # 0

\* self.board[row_ind][col_ind] = self.current_player
place(b, row, col, player) == [b EXCEPT ![row][col] = player]

\* play that never returns right after the human mark
play_over_after_mark_never(b) == FALSE

\* winner = self.board.winner(); if winner is not None: (return it)
play_over_after_mark(b) == board_winner(b) # None

\* what play leaves behind when it returns None on a taken cell
play_rejected(b, player) ==
  [board |-> b, current_player |-> player, ret |-> None, raised |-> FALSE,
   ai_calls |-> 0, mid |-> <<>>, turns |-> <<player>>]

\* what play leaves behind when the human mark ends the game: it returns
\* the winner before any switch_player
play_game_over(b, player) ==
  [board |-> b, current_player |-> player, ret |-> board_winner(b),
   raised |-> FALSE, ai_calls |-> 0, mid |-> b, turns |-> <<player, player>>]

\* what play leaves behind after self.switch_player(); self.move_ai(self.board)
\* with outcome out: an exception leaves play at once; otherwise
\* self.switch_player() and the winner of the board, if any, is returned
play_replied(b, player, out) ==
  IF out.raised
  THEN [board |-> out.board, current_player |-> switch_player(player),
        ret |-> None, raised |-> TRUE, ai_calls |-> 1, mid |-> b,
        turns |-> <<player, switch_player(player)>>]
  ELSE [board |-> out.board,
        current_player |-> switch_player(switch_player(player)),
        ret |-> board_winner(out.board), raised |-> FALSE, ai_calls |-> 1,
        mid |-> b,
        turns |-> <<player, switch_player(player),
                    switch_player(switch_player(player))>>]

\* GameLogic(BOARD, random_move) on BOARD = GomokuBoard(BOARD_SIZE)
Init ==
  /\ BOARD = zeros(BOARD_SIZE)
  /\ current_player = 1
  /\ move_ai = "random_move"
  /\ last = NoCall
  /\ stack = <<>>

\* an exception left play and ended the event loop
Halted == last.raised

\* play returned a winner: the event loop shows it and calls reset next
GameOver == last.op = "play" /\ last.ret # None

PlayReturn(row, col, r) ==
  /\ BOARD' = r.board
  /\ current_player' = r.current_player
  /\ last' = [NoCall EXCEPT !.op = "play", !.before = BOARD, !.row = row,
                            !.col = col, !.ret = r.ret, !.raised = r.raised,
                            !.ai_calls = r.ai_calls, !.mid = r.mid,
                            !.turns = r.turns]
  /\ UNCHANGED <<move_ai, stack>>

\* a click on cell (row, col): GAME_LOGIC.play(row, col)
Play(row, col) ==
  /\ ~Halted
  /\ ~GameOver
  /\ IF play_rejects(BOARD, row, col)
     THEN PlayReturn(row, col, play_rejected(BOARD, current_player))
     ELSE IF play_over_after_mark(place(BOARD, row, col, current_player))
          THEN PlayReturn(row, col,
                          play_game_over(place(BOARD, row, col, current_player),
                                         current_player))
          ELSE \E out \in move_ai_outcomes(move_ai,
                               place(BOARD, row, col, current_player)) :
                 PlayReturn(row, col,
                            play_replied(place(BOARD, row, col, current_player),
                                         current_player, out))

\* after a game has ended: GAME_LOGIC.reset()
Reset ==
  /\ ~Halted
  /\ GameOver
  /\ BOARD' = zeros(Len(BOARD))
  /\ current_player' = 1
  /\ last' = NoCall
  /\ UNCHANGED <<move_ai, stack>>

\* the Restart button: GAME_LOGIC.move_ai = algorithms[...]; BOARD.reset()
Restart(algorithm) ==
  /\ ~Halted
  /\ ~GameOver
  /\ move_ai' = algorithm
  /\ BOARD' = zeros(Len(BOARD))
  /\ last' = NoCall
  /\ UNCHANGED <<current_player, stack>>

Next ==
  \/ \E row \in 1..BOARD_SIZE, col \in 1..BOARD_SIZE : Play(row, col)
  \/ Reset
  \/ \E algorithm \in Algorithms : Restart(algorithm)

Spec == Init /\ [][Next]_vars

\* ------------------------------------------------------------------------
\* Properties of GameLogic.play (Spec)

\* the cells in which boards a and b differ
DiffCells(a, b) ==
  {c \in (1..Len(a)) \X (1..Len(a)) : a[c[1]][c[2]] # b[c[1]][c[2]]}

\* the reference classification of b: a mark with a run, 0 for a full board
\* without a run, None for a game that goes on
Outcome(b) ==
  IF HasRun(b, 1) THEN 1
  ELSE IF HasRun(b, 2) THEN 2
  ELSE IF IsFull(b) THEN 0
  ELSE None

\* the last call was play on a cell that was taken
PlayedTaken == last.op = "play" /\ last.before[last.row][last.col] # 0

\* the last call was play on a cell that was empty
PlayedEmpty == last.op = "play" /\ last.before[last.row][last.col] = 0

\* C5: play on a cell that is not empty returns None, changes no cell, leaves
\* current_player as it was and does not invoke move_ai.
C5_TakenCellIsNoOp ==
  PlayedTaken =>
    /\ last.ret = None
    /\ BOARD = last.before
    /\ current_player = last.turns[1]
    /\ last.ai_calls = 0
    /\ ~last.raised

\* play was called on a cell holding the engine's mark, while other cells
\* were empty
C5_Witness ==
  /\ PlayedTaken
  /\ last.before[last.row][last.col] = 2
  /\ count(BOARD, 0) > 0

\* the board right after the human's mark of the last play
AfterHumanMark == [last.before EXCEPT ![last.row][last.col] = last.turns[1]]

\* C6: play on an empty cell returns the outcome without invoking move_ai when
\* the board is terminal right after the human's mark, and then the board
\* differs from the one before the call in that cell only; move_ai is invoked
\* only when the board after the human's mark is ongoing, and then the board is
\* classified again and the outcome returned if it is terminal.
C6_ReplyOnlyWhenOngoing ==
  PlayedEmpty =>
    /\ Outcome(AfterHumanMark) # None =>
         /\ last.ret = Outcome(AfterHumanMark)
         /\ last.ai_calls = 0
         /\ BOARD = AfterHumanMark
         /\ DiffCells(BOARD, last.before) = {<<last.row, last.col>>}
    /\ Outcome(AfterHumanMark) = None =>
         /\ last.ai_calls = 1
         /\ ~last.raised
         /\ last.ret = Outcome(BOARD)
    /\ last.ai_calls \in {0, 1}
    /\ last.ai_calls = 1 => Outcome(AfterHumanMark) = None

\* the human's mark ended the game while cells were still empty
C6_Witness ==
  /\ PlayedEmpty
  /\ last.ret = 1
  /\ last.ai_calls = 0
  /\ count(BOARD, 0) > 0
  /\ move_ai = "minimax" \/ move_ai = "random_move"

\* the engine's reply ended the game
C6_WitnessReply == PlayedEmpty /\ last.ai_calls = 1 /\ last.ret = 2

\* the number of marks a step puts on the board
MarksPlaced == count(BOARD, 0) - count(BOARD', 0)

\* C10: after every mark accepted onto the board, the human's or the engine's,
\* current_player has switched to the other player, also when the mark ends
\* the game: a call of play that places one mark leaves the other player to
\* move, a call that places two leaves the same player to move.
C10_AlternatesAfterEveryMark ==
  [][(last'.op = "play" /\ MarksPlaced > 0) =>
       current_player' = IF MarksPlaced = 1 THEN 3 - current_player
                         ELSE current_player]_vars

\* current_player has switched after every mark of a call of play in which the
\* engine replied
AlternatesWhileOngoing ==
  (PlayedEmpty /\ last.ai_calls = 1) =>
    \A k \in 1..(Len(last.turns) - 1) :
      last.turns[k + 1] = 3 - last.turns[k]

\* no search raises in a game played from the empty board
NeverHalted == ~Halted

\* ------------------------------------------------------------------------
\* The recursive evaluation call by call (SpecStep)

\* at most MaxStepEmpty cells are empty on a board whose evaluation is followed
\* call by call
MaxStepEmpty == 4

StepBoards ==
  {b \in [1..BOARD_SIZE -> [1..BOARD_SIZE -> Marks]] :
     /\ count(b, 1) = count(b, 2) + 1
     /\ count(b, 0) <= MaxStepEmpty
     /\ ~HasRun(b, 2)}

\* the frame of one call of value(board, player[, alpha, beta]) on entry:
\* min_value = 1 or max_value = -1, solution = [], the loop at its start
Frame(b, player, alpha, beta) ==
  [board |-> b, player |-> player, alpha |-> alpha, beta |-> beta,
   best |-> IF player = 2 THEN -1 ELSE 1, solution |-> <<>>, i |-> 1,
   broke |-> FALSE]

Top == stack[Len(stack)]

StepInit ==
  /\ BOARD \in StepBoards
  /\ current_player = 2
  /\ move_ai \in SearchOps
  /\ last = NoCall
  /\ stack = <<>>

\* minimax(board) / alpha_beta(board) is called: value(board, 2[, -1, 1])
StepCall ==
  /\ last.op = "init"
  /\ stack' = <<Frame(BOARD, 2, -1, 1)>>
  /\ last' = [NoCall EXCEPT !.op = "running", !.before = BOARD]
  /\ UNCHANGED <<BOARD, current_player, move_ai>>

\* the loop of the top frame goes on: its board is not terminal, a successor is
\* left and no break was taken
Looping(f) ==
  /\ board_winner(f.board) = None
  /\ ~f.broke
  /\ f.i <= Len(next_boards(f.board, f.player))

\* valuee, _ = value(next_board, switch_player(player)[, alpha, beta])
StepDescend ==
  /\ last.op = "running"
  /\ Looping(Top)
  /\ stack' = Append(stack, Frame(next_boards(Top.board, Top.player)[Top.i],
                                   switch_player(Top.player), Top.alpha, Top.beta))
  /\ UNCHANGED <<BOARD, current_player, move_ai, last>>

\* what the call of frame f returns
FrameReturn(f) ==
  IF board_winner(f.board) # None THEN game_over(board_winner(f.board))
  ELSE MiniMaxReturn(f.best, f.solution, FALSE)

\* valuee is better for the player of frame f than what it has
Improves(f, valuee) ==
  IF f.player = 2 THEN valuee > f.best ELSE valuee < f.best

\* frame f after its loop body has run with valuee: the improvement test, and
\* in alpha_beta the update of alpha or beta and the break
Resume(f, valuee, algorithm) ==
  LET best == IF Improves(f, valuee) THEN valuee ELSE f.best
      solution == IF Improves(f, valuee)
                  THEN Append(f.solution, next_boards(f.board, f.player)[f.i])
                  ELSE f.solution
      alpha == IF algorithm = "alpha_beta" /\ f.player = 2
               THEN max(f.alpha, best) ELSE f.alpha
      beta == IF algorithm = "alpha_beta" /\ f.player = 1
              THEN min(f.beta, best) ELSE f.beta
  IN [f EXCEPT !.best = best, !.solution = solution, !.alpha = alpha,
               !.beta = beta, !.i = f.i + 1,
               !.broke = (algorithm = "alpha_beta" /\ beta <= alpha)]

\* a call other than the root's returns to its caller's loop
StepReturn ==
  /\ last.op = "running"
  /\ Len(stack) > 1
  /\ ~Looping(Top)
  /\ stack' = [SubSeq(stack, 1, Len(stack) - 1) EXCEPT
                 ![Len(stack) - 1] =
                    Resume(stack[Len(stack) - 1], FrameReturn(Top).value, move_ai)]
  /\ UNCHANGED <<BOARD, current_player, move_ai, last>>

\* the root's call returns: if solution is not None: board.board = solution[0].board
StepDone ==
  /\ last.op = "running"
  /\ Len(stack) = 1
  /\ ~Looping(Top)
  /\ stack' = <<>>
  /\ BOARD' = apply_solution(BOARD, FrameReturn(Top)).board
  /\ last' = [last EXCEPT !.op = "done",
                          !.value = FrameReturn(Top).value,
                          !.raised = apply_solution(BOARD, FrameReturn(Top)).raised]
  /\ UNCHANGED <<current_player, move_ai>>

StepNext == StepCall \/ StepDescend \/ StepReturn \/ StepDone

\* the interpreter runs the evaluation on without waiting for anything
SpecStep == StepInit /\ [][StepNext]_vars /\ WF_vars(StepNext)

\* a recursive call is made by this step
Descends == Len(stack) > 0 /\ Len(stack') = Len(stack) + 1

\* C8: the evaluation started by minimax and by alpha_beta terminates: every
\* recursive call is made on a board with strictly fewer empty cells than its
\* caller's, no call is made from a full board, which is terminal, and the
\* root's call returns.
C8_SearchTerminates ==
  /\ [][Descends =>
          count(stack'[Len(stack')].board, 0) < count(Top.board, 0)]_vars
  /\ [](\A k \in 1..Len(stack) :
           IsFull(stack[k].board) =>
             board_winner(stack[k].board) # None /\ ~Looping(stack[k]))
  /\ <>(last.op = "done")

\* the evaluation of a board with four empty cells is four calls below the
\* root's, at a full board
C8_Witness ==
  /\ last.op = "running"
  /\ count(last.before, 0) = 4
  /\ Len(stack) = 5
  /\ IsFull(Top.board)

\* the root's call of an evaluation that made recursive calls has returned
C8_WitnessDone ==
  last.op = "done" /\ count(last.before, 0) = 4 /\ BOARD # last.before

\* followed call by call, the search ends as minimax and alpha_beta do
StepAgreesWithSearch ==
  last.op = "done" =>
    [board |-> BOARD, value |-> last.value, raised |-> last.raised] =
      IF move_ai = "minimax" THEN minimax(last.before)
      ELSE alpha_beta(last.before)

\* the call of the top frame is about to return
Returning == last.op = "running" /\ ~Looping(Top)

\* C11: every node evaluated by minimax and by alpha_beta returns an empty (or
\* absent) candidate sequence exactly when its board is terminal.
C11_EmptyExactlyWhenTerminal ==
  Returning =>
    ((FrameReturn(Top).is_none \/ Len(FrameReturn(Top).solution) = 0)
       <=> Outcome(Top.board) # None)

\* terminal nodes return no candidates
TerminalReturnsNone ==
  (Returning /\ Outcome(Top.board) # None) => FrameReturn(Top).is_none

\* ------------------------------------------------------------------------
\* Games against the search (Spec)

\* the last call was play with minimax or alpha_beta as the strategy
PlayedAgainstSearch == PlayedEmpty /\ move_ai \in SearchOps

\* C12: in a game played through play from the empty board with minimax or
\* alpha_beta as the strategy, no board is a win for the human, play never
\* returns 1, and every call of the engine places exactly one O mark.
C12_HumanNeverWins ==
  move_ai \in SearchOps =>
    /\ ~HasRun(BOARD, 1)
    /\ last.op = "play" => last.ret # 1
    /\ (PlayedEmpty /\ last.ai_calls = 1) =>
         /\ ~last.raised
         /\ BOARD \in Successors(AfterHumanMark, 2)

\* the engine answered a human mark that threatened to complete a run
C12_Witness ==
  /\ PlayedAgainstSearch
  /\ last.ai_calls = 1
  /\ HumanWinsNext(AfterHumanMark)
  /\ BOARD \in Successors(AfterHumanMark, 2)

\* a game against the search was played to a draw on the full board
C12_WitnessDraw == PlayedAgainstSearch /\ last.ret = 0 /\ IsFull(BOARD)

====
